---------------------------- MODULE Spec2Model ----------------------------
(* A model of src/topic_monitor.rs: the topic monitor of the fish shell.   *)
(* Producers post() to topics through a lock-free status byte; consumers   *)
(* query the generation ledger under a mutex and may block in check(),     *)
(* either as the single elected reader on the binary semaphore or as a     *)
(* follower on the condition variable.                                     *)
EXTENDS Integers, FiniteSets, Sequences, TLC

(***************************************************************************)
(* Bounds of the model.                                                    *)
(***************************************************************************)
\* Number of consumer threads (callers of check / current_generations).
NumThreads == 3
\* Number of those threads that call the monitor where every operation is
\* open to every caller; the others stand idle there.
NumCallers == 2
\* Number of execution contexts that may run post() concurrently.
NumPosters == 2
\* Total number of post() calls started in one behaviour.
MaxPosts == 2
\* Number of topics, counted from sighupint, that are ever posted to.
NumPostTopics == 2
\* Total number of initialize() calls made in one behaviour.
MaxInits == 2

Threads == 1..NumThreads
Callers == 1..NumCallers
Posters == 1..NumPosters

(***************************************************************************)
(* Program constants.                                                      *)
(***************************************************************************)
\* enum Topic: the discriminants.
sighupint == 0
sigchld == 1
internal_exit == 2

\* all_topics()
all_topics == {sighupint, sigchld, internal_exit}

\* INVALID_GENERATION is u64::MAX in the source; the model uses the largest
\* integer TLC represents.  Only its being different from, and larger than,
\* every generation the ledger reaches matters.
INVALID_GENERATION == 2147483647

\* Sentinel status value: a thread is waiting and needs a wakeup.
STATUS_NEEDS_WAKEUP == 128

\* The absent owner of the data_ mutex.
NoThread == 0

\* std::ptr::null(), and the address of the one Box that initialize() leaks.
NullPtr == 0
FirstBox == 1

(***************************************************************************)
(* Bit operations on the u8 status word.                                   *)
(***************************************************************************)
\* 1 << (t as u8)
topic_to_bit(t) == 2 ^ t

\* (s & b) != 0 for a one-bit mask b
BitAnd(s, b) == IF (s \div b) % 2 = 1 THEN b ELSE 0

\* s & !b for a one-bit mask b
ClearBit(s, b) == s - BitAnd(s, b)

\* s | b for a one-bit mask b
SetBit(s, b) == (s - BitAnd(s, b)) + b

(***************************************************************************)
(* GenerationsList: a function from topics to generations.                 *)
(***************************************************************************)
\* GenerationsList::new(): all zero.
NewGens == [t \in all_topics |-> 0]

\* GenerationsList::invalid(): all sentinel.
InvalidGens == [t \in all_topics |-> INVALID_GENERATION]

is_valid(g, t) == g[t] # INVALID_GENERATION

\* Mutant of any_valid: the test of the sentinel is inverted.
any_valid_inverted(g) == \E t \in all_topics : ~is_valid(g, t)

any_valid(g) == \E t \in all_topics : g[t] # INVALID_GENERATION

Max(a, b) == IF a >= b THEN a ELSE b

VARIABLES
    status,      \* status_: AtomicU8
    current,     \* data_.current: the ledger
    has_reader,  \* data_.has_reader
    lock,        \* owner of the data_ mutex, NoThread when free
    sema,        \* value of the binary semaphore sema_
    fired,       \* the assertions that have failed (the process is then dead)
    \* consumer threads
    pc,          \* position of each thread
    op,          \* the public operation the thread runs
    qtopic,      \* generation_for_topic's argument
    wait,        \* check's `wait`
    gens,        \* the caller's GenerationsList, check's `gens`
    cur,         \* check's `current` == await_gens' `input_gens`; a query's result
    agens,       \* await_gens' local `gens`
    frame,       \* who called updated_gens_in_data
    cbits,       \* updated_gens_in_data's `changed_topic_bits`
    ret,         \* the value check returned
    clean,       \* history: no post touched check's valid topics
    qafter,      \* history: the operation began after the marked post returned
    \* posters
    ppc,         \* position of each poster
    ptopic,      \* post's `topic`
    oldstatus,   \* post's `oldstatus`
    \* history
    nposts,      \* the number of post() calls begun
    seen,        \* per topic, the largest generation any query returned
    mark,        \* one post() call singled out for observation
    \* the process
    s_principal, \* static mut s_principal: the address of the principal monitor
    monitor_ref, \* the reference initialize() / topic_monitor_principal()
                 \* returned last
    ninit,       \* history: the number of initialize() calls made
    woken        \* history: the thread's present await_gens call has already
                 \* come back from the notifier wait and gone round its loop

shared == <<status, current, has_reader, lock, sema, fired>>
tlocal == <<pc, op, qtopic, wait, gens, cur, agens, frame, cbits, ret, clean,
            qafter>>
plocal == <<ppc, ptopic, oldstatus>>
hist == <<nposts, seen, mark>>
statics == <<s_principal, monitor_ref, ninit>>
vars == <<shared, tlocal, plocal, hist, statics, woken>>

\* No assertion has failed: a failed assertion terminates the process.
Running == fired = {}

\* The topics that are posted to.
PostTopics == {t \in all_topics : t < NumPostTopics}

\* The lists a caller starts with: GenerationsList::invalid(), ::new(), and
\* invalid() with set(topic, 0) for one topic of interest.
SigchldOnly == [InvalidGens EXCEPT ![sigchld] = 0]
CallerLists == {InvalidGens, NewGens, SigchldOnly}

\* History: no post is singled out yet.
NoMark == [st |-> "none", p |-> 0, t |-> sighupint, pre |-> 0]

(***************************************************************************)
(* Init: the state after TopicMonitor::default(), every thread idle, each  *)
(* holding a list of its own.                                              *)
(***************************************************************************)
InitFields ==
    /\ status = 0
    /\ current = NewGens
    /\ has_reader = FALSE
    /\ lock = NoThread
    /\ sema = 0
    /\ fired = {}
    /\ pc = [th \in Threads |-> "idle"]
    /\ op = [th \in Threads |-> "none"]
    /\ qtopic = [th \in Threads |-> sighupint]
    /\ wait = [th \in Threads |-> FALSE]
    /\ cur = [th \in Threads |-> NewGens]
    /\ agens = [th \in Threads |-> NewGens]
    /\ frame = [th \in Threads |-> "updated_gens"]
    /\ cbits = [th \in Threads |-> 0]
    /\ ret = [th \in Threads |-> FALSE]
    /\ clean = [th \in Threads |-> FALSE]
    /\ qafter = [th \in Threads |-> FALSE]
    /\ ppc = [p \in Posters |-> "idle"]
    /\ ptopic = [p \in Posters |-> sighupint]
    /\ oldstatus = [p \in Posters |-> 0]
    /\ nposts = 0
    /\ seen = [t \in all_topics |-> 0]
    /\ mark = NoMark
    /\ woken = [th \in Threads |-> FALSE]

\* The state after topic_monitor_init(): the monitor exists.
InitMonitor ==
    /\ InitFields
    /\ s_principal = FirstBox
    /\ monitor_ref = FirstBox
    /\ ninit = 1

Init ==
    /\ InitMonitor
    /\ gens \in [Threads -> CallerLists]
    /\ \A th \in Threads \ Callers : gens[th] = InvalidGens

(***************************************************************************)
(* post(topic)                                                             *)
(***************************************************************************)
\* Mutant of BumpLedger: every generation is incremented on a capture.
BumpLedgerAll(c, bits) == [t \in all_topics |-> c[t] + 1]

\* Mutant of BumpLedger: the captured bits are dropped without an increment.
BumpLedgerNone(c, bits) == c

\* Mutant of BumpLedger: the loop stops at the first captured topic.
BumpLedgerFirstOnly(c, bits) ==
    [t \in all_topics |->
        IF /\ BitAnd(bits, topic_to_bit(t)) # 0
           /\ \A u \in all_topics :
                  u < t => BitAnd(bits, topic_to_bit(u)) = 0
          THEN c[t] + 1 ELSE c[t]]

\* Mutant of BumpLedger: the list is rebuilt from the default list, so the
\* topics that were not captured fall back to 0.
BumpLedgerRebuilt(c, bits) ==
    [t \in all_topics |->
        IF BitAnd(bits, topic_to_bit(t)) # 0 THEN c[t] + 1 ELSE 0]

\* Mutant of PostNewStatus: the topic bit is toggled (^=) instead of set.
PostNewStatusToggles(old, topicbit) ==
    IF BitAnd(old, topicbit) # 0
      THEN ClearBit(ClearBit(old, STATUS_NEEDS_WAKEUP), topicbit)
      ELSE SetBit(ClearBit(old, STATUS_NEEDS_WAKEUP), topicbit)

\* Mutant of PostNewStatus: the wakeup bit is not cleared.
PostNewStatusKeepsWakeup(old, topicbit) == SetBit(old, topicbit)

\* newstatus = (oldstatus & !STATUS_NEEDS_WAKEUP) | topicbit
PostNewStatus(old, topicbit) ==
    SetBit(ClearBit(old, STATUS_NEEDS_WAKEUP), topicbit)

\* The assertion after the CAS loop of post().
PostAssertOk(old) ==
    (old = STATUS_NEEDS_WAKEUP) = (BitAnd(old, STATUS_NEEDS_WAKEUP) # 0)

\* Mutant of PostMustSignal: every post that sets a new bit signals.
PostMustSignalAlways(old, topicbit) == BitAnd(old, topicbit) = 0

\* Mutant of PostMustSignal: post never signals the notifier.
PostMustSignalNever(old, topicbit) == FALSE

\* Mutant of PostMustSignal: the test of the wakeup bit is inverted.
PostMustSignalInverted(old, topicbit) ==
    /\ BitAnd(old, topicbit) = 0
    /\ BitAnd(old, STATUS_NEEDS_WAKEUP) = 0

\* post() goes on to sema_.post(): the topic bit was new and a reader waits.
PostMustSignal(old, topicbit) ==
    /\ BitAnd(old, topicbit) = 0
    /\ BitAnd(old, STATUS_NEEDS_WAKEUP) # 0

\* post() returns; its locals die.
PostReturn(p) ==
    /\ ppc' = [ppc EXCEPT ![p] = "idle"]
    /\ ptopic' = [ptopic EXCEPT ![p] = sighupint]
    /\ oldstatus' = [oldstatus EXCEPT ![p] = 0]
    /\ mark' = IF mark.st = "running" /\ mark.p = p
                 THEN [mark EXCEPT !.st = "returned"]
                 ELSE mark

\* A call of post(t) begins.
PostBegin(p, t) ==
    /\ Running
    /\ UNCHANGED <<statics, woken>>
    /\ ppc[p] = "idle"
    /\ nposts < MaxPosts
    /\ ppc' = [ppc EXCEPT ![p] = "load"]
    /\ ptopic' = [ptopic EXCEPT ![p] = t]
    /\ nposts' = nposts + 1
    /\ UNCHANGED <<shared, tlocal, oldstatus, seen, mark>>

\* A call of post(t) begins and is the one singled out for observation: the
\* largest generation of t any query has returned so far is recorded.
PostBeginMarked(p, t) ==
    /\ Running
    /\ UNCHANGED <<statics, woken>>
    /\ ppc[p] = "idle"
    /\ nposts < MaxPosts
    /\ mark.st = "none"
    /\ ppc' = [ppc EXCEPT ![p] = "load"]
    /\ ptopic' = [ptopic EXCEPT ![p] = t]
    /\ nposts' = nposts + 1
    /\ mark' = [st |-> "running", p |-> p, t |-> t, pre |-> seen[t]]
    /\ UNCHANGED <<shared, tlocal, oldstatus, seen>>

\* oldstatus = self.status_.load(relaxed)
PostLoad(p) ==
    /\ Running
    /\ UNCHANGED <<statics, woken>>
    /\ ppc[p] = "load"
    /\ oldstatus' = [oldstatus EXCEPT ![p] = status]
    /\ ppc' = [ppc EXCEPT ![p] = "cas"]
    /\ UNCHANGED <<shared, tlocal, ptopic, hist>>

\* compare_exchange_weak(oldstatus, newstatus) succeeds; then the assertion,
\* the coalescing return and the choice to signal.
PostCasOk(p) ==
    /\ Running
    /\ UNCHANGED <<statics, woken>>
    /\ ppc[p] = "cas"
    /\ status = oldstatus[p]
    /\ status' = PostNewStatus(oldstatus[p], topic_to_bit(ptopic[p]))
    /\ IF ~PostAssertOk(oldstatus[p])
         THEN /\ fired' = fired \cup {"post: wakeup bit with other bits"}
              /\ ppc' = [ppc EXCEPT ![p] = "panic"]
              /\ UNCHANGED <<ptopic, oldstatus, mark>>
         ELSE /\ UNCHANGED fired
              /\ IF PostMustSignal(oldstatus[p], topic_to_bit(ptopic[p]))
                   THEN /\ ppc' = [ppc EXCEPT ![p] = "signal"]
                        /\ UNCHANGED <<ptopic, oldstatus, mark>>
                   ELSE PostReturn(p)
    /\ clean' = [th \in Threads |->
                    clean[th] /\ ~is_valid(gens[th], ptopic[p])]
    /\ UNCHANGED <<current, has_reader, lock, sema, pc, op, qtopic, wait, gens,
                   cur, agens, frame, cbits, ret, qafter, nposts, seen>>

\* compare_exchange_weak fails, because the status changed or spuriously.
PostCasFail(p) ==
    /\ Running
    /\ UNCHANGED <<statics, woken>>
    /\ ppc[p] = "cas"
    /\ ppc' = [ppc EXCEPT ![p] = "load"]
    /\ UNCHANGED <<shared, tlocal, ptopic, oldstatus, hist>>

\* Mutant of PostSignal: the notifier is signalled with the ledger lock held.
PostSignalUnderLock(p) ==
    /\ Running
    /\ UNCHANGED <<statics, woken>>
    /\ ppc[p] = "signal"
    /\ lock = NoThread
    /\ sema' = sema + 1
    /\ PostReturn(p)
    /\ UNCHANGED <<status, current, has_reader, lock, fired, tlocal, nposts,
                   seen>>

\* self.sema_.post()
PostSignal(p) ==
    /\ Running
    /\ UNCHANGED <<statics, woken>>
    /\ ppc[p] = "signal"
    /\ sema' = sema + 1
    /\ PostReturn(p)
    /\ UNCHANGED <<status, current, has_reader, lock, fired, tlocal, nposts,
                   seen>>

PostStep(p) ==
    \/ \E t \in PostTopics : PostBegin(p, t)
    \/ PostLoad(p)
    \/ PostCasOk(p)
    \/ PostCasFail(p)
    \/ PostSignal(p)

(***************************************************************************)
(* updated_gens_in_data: apply the pending posts to the ledger.            *)
(***************************************************************************)
\* Mutant of NothingPending: the wakeup value counts as pending.
NothingPendingZeroOnly(bits) == bits = 0

\* changed_topic_bits == 0 || changed_topic_bits == STATUS_NEEDS_WAKEUP
NothingPending(bits) == bits = 0 \/ bits = STATUS_NEEDS_WAKEUP

\* The assertion after the CAS loop of updated_gens_in_data.
FlushAssertOk(bits) == BitAnd(bits, STATUS_NEEDS_WAKEUP) = 0

\* The loop over all_topics(): each captured topic's generation + 1.
BumpLedger(c, bits) ==
    [t \in all_topics |->
        IF BitAnd(bits, topic_to_bit(t)) # 0 THEN c[t] + 1 ELSE c[t]]

\* Mutant of Notified: notify_all() wakes nobody.
NotifiedNobody(pcs) == pcs

\* data_notifier_.notify_all(): every thread blocked in wait() is woken.
Notified(pcs) ==
    [x \in Threads |-> IF pcs[x] = "cv_wait" THEN "cv_woken" ELSE pcs[x]]

\* The generations in `topics` of a returned list become known to callers.
SeenAfter(s, g, topics) ==
    [t \in all_topics |-> IF t \in topics THEN Max(s[t], g[t]) ELSE s[t]]

\* The arguments generation_for_topic may have been called with.  The topic
\* is not used before .get(topic) is applied to the returned list, so it is
\* drawn there.
TopicArgs(th) ==
    IF op[th] = "generation_for_topic" THEN all_topics ELSE {sighupint}

\* The topics a query operation returns to its caller.
QueryTopics(th, t) ==
    IF op[th] = "current_generations" THEN all_topics ELSE {t}

\* updated_gens_in_data returns `snap` to its caller, which goes on to its
\* next shared access: updated_gens drops the lock and returns to the public
\* operation; try_update_gens_maybe_becoming_reader compares and, when nothing
\* changed, waits on the condition variable or goes on to become the reader.
FlushReturn(th, snap, notify) ==
    LET base == IF notify THEN Notified(pc) ELSE pc IN
    /\ cbits' = [cbits EXCEPT ![th] = 0]
    /\ woken' = [woken EXCEPT ![th] =
                    /\ @
                    /\ frame[th] = "try_update"
                    /\ ~(agens[th] # snap /\ snap # cur[th])]
    /\ IF frame[th] = "updated_gens"
         THEN /\ lock' = NoThread
              /\ cur' = [cur EXCEPT ![th] = snap]
              /\ UNCHANGED agens
              /\ IF op[th] = "check"
                   THEN /\ pc' = [base EXCEPT ![th] = "ck_loop"]
                        /\ UNCHANGED <<seen, qtopic>>
                   ELSE /\ pc' = [base EXCEPT ![th] = "done"]
                        /\ \E t \in TopicArgs(th) :
                              /\ qtopic' = [qtopic EXCEPT ![th] = t]
                              /\ seen' = SeenAfter(seen, snap,
                                                   QueryTopics(th, t))
         ELSE /\ UNCHANGED <<seen, qtopic>>
              /\ IF agens[th] # snap
                   THEN \* *gens = current; break; return false
                        /\ lock' = NoThread
                        /\ IF snap = cur[th]
                             THEN /\ pc' = [base EXCEPT ![th] = "try_lock"]
                                  /\ agens' = [agens EXCEPT ![th] = snap]
                                  /\ UNCHANGED cur
                             ELSE \* await_gens returns gens
                                  /\ pc' = [base EXCEPT ![th] = "ck_loop"]
                                  /\ cur' = [cur EXCEPT ![th] = snap]
                                  /\ agens' = [agens EXCEPT ![th] = NewGens]
                   ELSE /\ UNCHANGED <<agens, cur>>
                        /\ IF has_reader
                             THEN \* data_notifier_.wait(data)
                                  /\ pc' = [base EXCEPT ![th] = "cv_wait"]
                                  /\ lock' = NoThread
                             ELSE /\ pc' = [base EXCEPT ![th] = "try_assert"]
                                  /\ UNCHANGED lock

\* changed_topic_bits = self.status_.load(relaxed), and the early return.
FlushLoad(th) ==
    /\ Running
    /\ UNCHANGED statics
    /\ pc[th] = "fl_load"
    /\ IF NothingPending(status)
         THEN FlushReturn(th, current, FALSE)
         ELSE /\ cbits' = [cbits EXCEPT ![th] = status]
              /\ pc' = [pc EXCEPT ![th] = "fl_cas"]
              /\ UNCHANGED <<lock, cur, agens, seen, qtopic, woken>>
    /\ UNCHANGED <<status, current, has_reader, sema, fired, op, wait, gens,
                   frame, ret, clean, qafter, plocal, nposts, mark>>

\* compare_exchange_weak(changed_topic_bits, 0) succeeds: the assertion, the
\* ledger update and notify_all, all under the lock.
FlushCasOk(th) ==
    /\ Running
    /\ UNCHANGED statics
    /\ pc[th] = "fl_cas"
    /\ status = cbits[th]
    /\ status' = 0
    /\ IF ~FlushAssertOk(cbits[th])
         THEN /\ fired' = fired \cup {"flush: thread waiting bit set"}
              /\ pc' = [pc EXCEPT ![th] = "panic"]
              /\ UNCHANGED <<current, lock, cur, agens, cbits, seen, qtopic,
                             woken>>
         ELSE /\ UNCHANGED fired
              /\ current' = BumpLedger(current, cbits[th])
              /\ FlushReturn(th, BumpLedger(current, cbits[th]), TRUE)
    /\ UNCHANGED <<has_reader, sema, op, wait, gens, frame, ret, clean, qafter,
                   plocal, nposts, mark>>

\* compare_exchange_weak fails, because a post raced in or spuriously.
FlushCasFail(th) ==
    /\ Running
    /\ UNCHANGED <<statics, woken>>
    /\ pc[th] = "fl_cas"
    /\ pc' = [pc EXCEPT ![th] = "fl_load"]
    /\ cbits' = [cbits EXCEPT ![th] = 0]
    /\ UNCHANGED <<shared, op, qtopic, wait, gens, cur, agens, frame, ret,
                   clean, qafter, plocal, hist>>

(***************************************************************************)
(* The public queries and check().                                         *)
(***************************************************************************)
\* History: the ledger has nothing new for the valid topics of g.
UpToDate(g) ==
    \A t \in all_topics :
        is_valid(g, t) =>
            /\ g[t] = current[t]
            /\ BitAnd(status, topic_to_bit(t)) = 0

\* A public operation begins.
Enter(th, name, w) ==
    /\ op' = [op EXCEPT ![th] = name]
    /\ wait' = [wait EXCEPT ![th] = w]
    /\ clean' = [clean EXCEPT ![th] = name = "check" /\ UpToDate(gens[th])]
    /\ qafter' = [qafter EXCEPT ![th] = mark.st = "returned"]

\* current_generations(): calls updated_gens().
CurrentGenerations(th) ==
    /\ Running
    /\ UNCHANGED <<statics, woken>>
    /\ pc[th] = "idle"
    /\ Enter(th, "current_generations", FALSE)
    /\ pc' = [pc EXCEPT ![th] = "ug_lock"]
    /\ UNCHANGED <<shared, qtopic, gens, cur, agens, frame, cbits, ret, plocal,
                   hist>>

\* generation_for_topic(topic): current_generations().get(topic).
GenerationForTopic(th) ==
    /\ Running
    /\ UNCHANGED <<statics, woken>>
    /\ pc[th] = "idle"
    /\ Enter(th, "generation_for_topic", FALSE)
    /\ pc' = [pc EXCEPT ![th] = "ug_lock"]
    /\ UNCHANGED <<shared, qtopic, gens, cur, agens, frame, cbits, ret, plocal,
                   hist>>

\* check(gens, wait): the any_valid() test, then updated_gens().
Check(th, w) ==
    /\ Running
    /\ UNCHANGED <<statics, woken>>
    /\ pc[th] = "idle"
    /\ Enter(th, "check", w)
    /\ pc' = [pc EXCEPT ![th] =
                 IF any_valid(gens[th]) THEN "ug_lock" ELSE "done"]
    /\ UNCHANGED <<shared, qtopic, gens, cur, agens, frame, cbits, ret, plocal,
                   hist>>

\* The caller takes the result; the operation's locals die.
Return(th) ==
    /\ Running
    /\ UNCHANGED <<statics, woken>>
    /\ pc[th] = "done"
    /\ pc' = [pc EXCEPT ![th] = "idle"]
    /\ op' = [op EXCEPT ![th] = "none"]
    /\ qtopic' = [qtopic EXCEPT ![th] = sighupint]
    /\ wait' = [wait EXCEPT ![th] = FALSE]
    /\ cur' = [cur EXCEPT ![th] = NewGens]
    /\ ret' = [ret EXCEPT ![th] = FALSE]
    /\ clean' = [clean EXCEPT ![th] = FALSE]
    /\ qafter' = [qafter EXCEPT ![th] = FALSE]
    /\ UNCHANGED <<shared, gens, agens, frame, cbits, plocal, hist>>

\* updated_gens(): self.data_.lock()
UpdatedGensLock(th) ==
    /\ Running
    /\ UNCHANGED <<statics, woken>>
    /\ pc[th] = "ug_lock"
    /\ lock = NoThread
    /\ lock' = th
    /\ frame' = [frame EXCEPT ![th] = "updated_gens"]
    /\ pc' = [pc EXCEPT ![th] = "fl_load"]
    /\ UNCHANGED <<status, current, has_reader, sema, fired, op, qtopic, wait,
                   gens, cur, agens, cbits, ret, clean, qafter, plocal, hist>>

\* The assertion of check's loop over the valid topics.
CheckAssertOk(g, c) ==
    \A t \in all_topics : is_valid(g, t) => g[t] <= c[t]

\* Mutant of CheckChanged: the comparison is not strict.
CheckChangedNotStrict(g, c) ==
    \E t \in all_topics : is_valid(g, t) /\ g[t] <= c[t]

\* `changed` after the loop over the valid topics.
CheckChanged(g, c) ==
    \E t \in all_topics : is_valid(g, t) /\ g[t] < c[t]

\* Mutant of CheckUpdated: on a change the whole snapshot is copied into gens.
CheckUpdatedWhole(g, c) ==
    IF \E t \in all_topics : is_valid(g, t) /\ g[t] < c[t] THEN c ELSE g

\* Mutant of CheckUpdated: gens is set one past the snapshot's generation.
CheckUpdatedOffByOne(g, c) ==
    [t \in all_topics |->
        IF is_valid(g, t) /\ g[t] < c[t] THEN c[t] + 1 ELSE g[t]]

\* `gens` after the loop over the valid topics.
CheckUpdated(g, c) ==
    [t \in all_topics |->
        IF is_valid(g, t) /\ g[t] < c[t] THEN c[t] ELSE g[t]]

\* Mutant of CheckDone: the loop is left only on a change.
CheckDoneIgnoresWait(w, changed) == changed

\* if !wait || changed { break; }
CheckDone(w, changed) == ~w \/ changed

\* The topics in which two lists differ.
Differing(g, h) == {t \in all_topics : g[t] # h[t]}

\* One iteration of check's loop: compare gens with `current`, then return or
\* enter await_gens(&current), whose local gens starts as a clone of its input.
CheckLoop(th) ==
    /\ Running
    /\ UNCHANGED <<statics, woken>>
    /\ pc[th] = "ck_loop"
    /\ IF ~CheckAssertOk(gens[th], cur[th])
         THEN /\ fired' = fired \cup {"check: incoming gen count exceeded"}
              /\ pc' = [pc EXCEPT ![th] = "panic"]
              /\ UNCHANGED <<gens, ret, agens, seen>>
         ELSE /\ UNCHANGED fired
              /\ gens' = [gens EXCEPT ![th] = CheckUpdated(@, cur[th])]
              /\ IF CheckDone(wait[th], CheckChanged(gens[th], cur[th]))
                   THEN /\ ret' = [ret EXCEPT ![th] =
                                      CheckChanged(gens[th], cur[th])]
                        /\ pc' = [pc EXCEPT ![th] = "done"]
                        /\ seen' = SeenAfter(seen, cur[th],
                               Differing(CheckUpdated(gens[th], cur[th]),
                                         gens[th]))
                        /\ UNCHANGED agens
                   ELSE /\ agens' = [agens EXCEPT ![th] = cur[th]]
                        /\ pc' = [pc EXCEPT ![th] = "try_lock"]
                        /\ UNCHANGED <<ret, seen>>
    /\ UNCHANGED <<status, current, has_reader, lock, sema, op, qtopic, wait,
                   cur, frame, cbits, clean, qafter, plocal, nposts, mark>>

(***************************************************************************)
(* await_gens and try_update_gens_maybe_becoming_reader.                   *)
(***************************************************************************)
\* try_update_gens_maybe_becoming_reader: self.data_.lock()
TryLock(th) ==
    /\ Running
    /\ UNCHANGED <<statics, woken>>
    /\ pc[th] = "try_lock"
    /\ lock = NoThread
    /\ lock' = th
    /\ frame' = [frame EXCEPT ![th] = "try_update"]
    /\ pc' = [pc EXCEPT ![th] = "fl_load"]
    /\ UNCHANGED <<status, current, has_reader, sema, fired, op, qtopic, wait,
                   gens, cur, agens, cbits, ret, clean, qafter, plocal, hist>>

\* The assertion before the reader CAS: the wakeup bit is not set.
NoThreadWaiting(s) == BitAnd(s, STATUS_NEEDS_WAKEUP) = 0

\* assert!((status_.load() & STATUS_NEEDS_WAKEUP) == 0)
TryAssert(th) ==
    /\ Running
    /\ UNCHANGED <<statics, woken>>
    /\ pc[th] = "try_assert"
    /\ IF NoThreadWaiting(status)
         THEN /\ pc' = [pc EXCEPT ![th] = "try_cas"]
              /\ UNCHANGED fired
         ELSE /\ pc' = [pc EXCEPT ![th] = "panic"]
              /\ fired' = fired \cup {"try_update: no thread should be waiting"}
    /\ UNCHANGED <<status, current, has_reader, lock, sema, op, qtopic, wait,
                   gens, cur, agens, frame, cbits, ret, clean, qafter, plocal,
                   hist>>

\* The value the reader CAS expects, and the value it stores.
ReaderCasExpected == 0
ReaderCasNew == STATUS_NEEDS_WAKEUP

\* Mutant of ReaderFlagAfterCas: the flag is not raised.
ReaderFlagForgotten == FALSE

\* data.has_reader = true
ReaderFlagAfterCas == TRUE

\* Mutant of TryCas: the result of the compare_exchange is ignored.
TryCasIgnoresFailure(th) ==
    /\ Running
    /\ UNCHANGED <<statics, woken>>
    /\ pc[th] = "try_cas"
    /\ status' = IF status = ReaderCasExpected THEN ReaderCasNew ELSE status
    /\ has_reader' = TRUE
    /\ lock' = NoThread
    /\ pc' = [pc EXCEPT ![th] = "sema_wait"]
    /\ UNCHANGED <<fired, current, sema, op, qtopic, wait, gens, cur, agens,
                   frame, cbits, ret, clean, qafter, plocal, hist>>

\* compare_exchange(0, STATUS_NEEDS_WAKEUP): on success the thread becomes the
\* reader, drops the lock and, in await_gens, asserts its gens are its input
\* before it waits on the semaphore; on failure it loops to flush again.
TryCas(th) ==
    /\ Running
    /\ UNCHANGED <<statics, woken>>
    /\ pc[th] = "try_cas"
    /\ IF status = ReaderCasExpected
         THEN /\ status' = ReaderCasNew
              /\ has_reader' = ReaderFlagAfterCas
              /\ lock' = NoThread
              /\ IF agens[th] = cur[th]
                   THEN /\ pc' = [pc EXCEPT ![th] = "sema_wait"]
                        /\ UNCHANGED fired
                   ELSE /\ pc' = [pc EXCEPT ![th] = "panic"]
                        /\ fired' = fired \cup {"await: gens changed as reader"}
         ELSE /\ pc' = [pc EXCEPT ![th] = "fl_load"]
              /\ UNCHANGED <<status, has_reader, lock, fired>>
    /\ UNCHANGED <<current, sema, op, qtopic, wait, gens, cur, agens, frame,
                   cbits, ret, clean, qafter, plocal, hist>>

\* Mutant of SemaWait: the wait returns without consuming the signal.
SemaWaitKeepsSignal(th) ==
    /\ Running
    /\ UNCHANGED <<statics, woken>>
    /\ pc[th] = "sema_wait"
    /\ sema > 0
    /\ pc' = [pc EXCEPT ![th] = "rd_lock"]
    /\ UNCHANGED <<status, current, has_reader, lock, sema, fired, op, qtopic,
                   wait, gens, cur, agens, frame, cbits, ret, clean, qafter,
                   plocal, hist>>

\* self.sema_.wait() returns: one post of the semaphore is consumed.
SemaWait(th) ==
    /\ Running
    /\ UNCHANGED <<statics, woken>>
    /\ pc[th] = "sema_wait"
    /\ sema > 0
    /\ sema' = sema - 1
    /\ pc' = [pc EXCEPT ![th] = "rd_lock"]
    /\ UNCHANGED <<status, current, has_reader, lock, fired, op, qtopic, wait,
                   gens, cur, agens, frame, cbits, ret, clean, qafter, plocal,
                   hist>>

\* Mutant of ReaderRelock: data_notifier_.notify_all() is left out.
ReaderRelockSilent(th) ==
    /\ Running
    /\ UNCHANGED statics
    /\ pc[th] = "rd_lock"
    /\ lock = NoThread
    /\ has_reader
    /\ has_reader' = FALSE
    /\ IF current = cur[th]
         THEN /\ pc' = [pc EXCEPT ![th] = "try_lock"]
              /\ agens' = [agens EXCEPT ![th] = current]
              /\ woken' = [woken EXCEPT ![th] = TRUE]
              /\ UNCHANGED cur
         ELSE /\ pc' = [pc EXCEPT ![th] = "ck_loop"]
              /\ cur' = [cur EXCEPT ![th] = current]
              /\ agens' = [agens EXCEPT ![th] = NewGens]
              /\ woken' = [woken EXCEPT ![th] = FALSE]
    /\ UNCHANGED <<status, current, lock, sema, fired, op, qtopic, wait, gens,
                   frame, cbits, ret, clean, qafter, plocal, hist>>

\* Mutant of ReaderRelock: data.has_reader = false is left out.
ReaderRelockKeepsFlag(th) ==
    /\ Running
    /\ UNCHANGED statics
    /\ pc[th] = "rd_lock"
    /\ lock = NoThread
    /\ IF current = cur[th]
         THEN /\ pc' = [Notified(pc) EXCEPT ![th] = "try_lock"]
              /\ agens' = [agens EXCEPT ![th] = current]
              /\ woken' = [woken EXCEPT ![th] = TRUE]
              /\ UNCHANGED cur
         ELSE /\ pc' = [Notified(pc) EXCEPT ![th] = "ck_loop"]
              /\ cur' = [cur EXCEPT ![th] = current]
              /\ agens' = [agens EXCEPT ![th] = NewGens]
              /\ woken' = [woken EXCEPT ![th] = FALSE]
    /\ UNCHANGED <<status, current, has_reader, lock, sema, fired, op, qtopic,
                   wait, gens, frame, cbits, ret, clean, qafter, plocal, hist>>

\* The reader after its wait: lock, gens = data.current.clone(), the assertion,
\* has_reader = false, notify_all, unlock; then await_gens' loop test.
ReaderRelock(th) ==
    /\ Running
    /\ UNCHANGED statics
    /\ pc[th] = "rd_lock"
    /\ lock = NoThread
    /\ IF ~has_reader
         THEN /\ fired' = fired \cup {"await: we should be the reader"}
              /\ pc' = [pc EXCEPT ![th] = "panic"]
              /\ UNCHANGED <<has_reader, cur, agens, woken>>
         ELSE /\ UNCHANGED fired
              /\ has_reader' = FALSE
              /\ IF current = cur[th]
                   THEN /\ pc' = [Notified(pc) EXCEPT ![th] = "try_lock"]
                        /\ agens' = [agens EXCEPT ![th] = current]
                        /\ woken' = [woken EXCEPT ![th] = TRUE]
                        /\ UNCHANGED cur
                   ELSE \* await_gens returns gens
                        /\ pc' = [Notified(pc) EXCEPT ![th] = "ck_loop"]
                        /\ cur' = [cur EXCEPT ![th] = current]
                        /\ agens' = [agens EXCEPT ![th] = NewGens]
                        /\ woken' = [woken EXCEPT ![th] = FALSE]
    /\ UNCHANGED <<status, current, lock, sema, op, qtopic, wait, gens, frame,
                   cbits, ret, clean, qafter, plocal, hist>>

\* data_notifier_.wait() may return without a notification.
CvSpurious(th) ==
    /\ Running
    /\ UNCHANGED <<statics, woken>>
    /\ pc[th] = "cv_wait"
    /\ pc' = [pc EXCEPT ![th] = "cv_woken"]
    /\ UNCHANGED <<shared, op, qtopic, wait, gens, cur, agens, frame, cbits,
                   ret, clean, qafter, plocal, hist>>

\* data_notifier_.wait() returns with the lock reacquired; `continue`.
CvWake(th) ==
    /\ Running
    /\ UNCHANGED <<statics, woken>>
    /\ pc[th] = "cv_woken"
    /\ lock = NoThread
    /\ lock' = th
    /\ pc' = [pc EXCEPT ![th] = "fl_load"]
    /\ UNCHANGED <<status, current, has_reader, sema, fired, op, qtopic, wait,
                   gens, cur, agens, frame, cbits, ret, clean, qafter, plocal,
                   hist>>

ThreadStep(th) ==
    \/ CurrentGenerations(th)
    \/ GenerationForTopic(th)
    \/ \E w \in BOOLEAN : Check(th, w)
    \/ Return(th)
    \/ UpdatedGensLock(th)
    \/ FlushLoad(th)
    \/ FlushCasOk(th)
    \/ FlushCasFail(th)
    \/ CheckLoop(th)
    \/ TryLock(th)
    \/ TryAssert(th)
    \/ TryCas(th)
    \/ SemaWait(th)
    \/ ReaderRelock(th)
    \/ CvSpurious(th)
    \/ CvWake(th)

Next ==
    \/ \E p \in Posters : PostStep(p)
    \/ \E th \in Callers : ThreadStep(th)

Spec == Init /\ [][Next]_vars

\* The same program, with one post() call of each behaviour singled out.
NextMarked ==
    \/ Next
    \/ \E p \in Posters, t \in PostTopics : PostBeginMarked(p, t)

\* The first thread holds a list valid in every topic, the others a list
\* valid in sigchld alone.
InitMarked ==
    /\ InitMonitor
    /\ gens = [th \in Threads |-> IF th = 1 THEN NewGens ELSE SigchldOnly]

SpecMarked == InitMarked /\ [][NextMarked]_vars

(***************************************************************************)
(* Scenario: N posts to sigchld with no flush in between, then checks on   *)
(* one list with no further post.  The ledger and the list of thread 1     *)
(* both start at generation 0 of sigchld.                                  *)
(***************************************************************************)
InitCoalesce ==
    /\ InitMonitor
    /\ gens \in [Threads -> {NewGens, SigchldOnly}]

\* No flush has run since the program started.
NeverFlushed == current = NewGens /\ \A th \in Threads : pc[th] = "idle"

\* Every call of post has returned, and there was at least one.
PostsOver == nposts >= 1 /\ \A p \in Posters : ppc[p] = "idle"

NextCoalesce ==
    \/ \E p \in Posters : NeverFlushed /\ PostBegin(p, sigchld)
    \/ \E p \in Posters : PostLoad(p)
    \/ \E p \in Posters : PostCasOk(p)
    \/ \E p \in Posters : PostCasFail(p)
    \/ PostsOver /\ Check(1, FALSE)
    \/ UpdatedGensLock(1)
    \/ FlushLoad(1)
    \/ FlushCasOk(1)
    \/ FlushCasFail(1)
    \/ CheckLoop(1)
    \/ Return(1)

SpecCoalesce == InitCoalesce /\ [][NextCoalesce]_vars

(***************************************************************************)
(* Scenario: thread 1 calls check({sigchld: 0, others invalid}, wait=true) *)
(* once; after the call has begun, poster 1 calls post(sigchld) twice.     *)
(***************************************************************************)
InitAwait ==
    /\ InitMonitor
    /\ gens = [th \in Threads |-> SigchldOnly]

NextAwait ==
    \/ pc[1] # "idle" /\ nposts < 2 /\ PostBegin(1, sigchld)
    \/ PostLoad(1)
    \/ PostCasOk(1)
    \/ PostCasFail(1)
    \/ PostSignal(1)
    \/ Check(1, TRUE)
    \/ UpdatedGensLock(1)
    \/ FlushLoad(1)
    \/ FlushCasOk(1)
    \/ FlushCasFail(1)
    \/ CheckLoop(1)
    \/ TryLock(1)
    \/ TryAssert(1)
    \/ TryCas(1)
    \/ SemaWait(1)
    \/ ReaderRelock(1)

SpecAwait == InitAwait /\ [][NextAwait]_vars

(***************************************************************************)
(* The same program with callers that keep what a query returned as (part  *)
(* of) the list they later pass to check().                                *)
(***************************************************************************)
\* The caller of current_generations() keeps the returned list as its gens.
KeepList(th) ==
    /\ Running
    /\ UNCHANGED <<statics, woken>>
    /\ pc[th] = "done"
    /\ op[th] = "current_generations"
    /\ gens' = [gens EXCEPT ![th] = cur[th]]
    /\ pc' = [pc EXCEPT ![th] = "idle"]
    /\ op' = [op EXCEPT ![th] = "none"]
    /\ qtopic' = [qtopic EXCEPT ![th] = sighupint]
    /\ wait' = [wait EXCEPT ![th] = FALSE]
    /\ cur' = [cur EXCEPT ![th] = NewGens]
    /\ ret' = [ret EXCEPT ![th] = FALSE]
    /\ clean' = [clean EXCEPT ![th] = FALSE]
    /\ qafter' = [qafter EXCEPT ![th] = FALSE]
    /\ UNCHANGED <<shared, agens, frame, cbits, plocal, hist>>

\* The caller of generation_for_topic(t) stores the returned generation as
\* entry t of its gens.
KeepTopic(th) ==
    /\ Running
    /\ UNCHANGED <<statics, woken>>
    /\ pc[th] = "done"
    /\ op[th] = "generation_for_topic"
    /\ gens' = [gens EXCEPT ![th][qtopic[th]] = cur[th][qtopic[th]]]
    /\ pc' = [pc EXCEPT ![th] = "idle"]
    /\ op' = [op EXCEPT ![th] = "none"]
    /\ qtopic' = [qtopic EXCEPT ![th] = sighupint]
    /\ wait' = [wait EXCEPT ![th] = FALSE]
    /\ cur' = [cur EXCEPT ![th] = NewGens]
    /\ ret' = [ret EXCEPT ![th] = FALSE]
    /\ clean' = [clean EXCEPT ![th] = FALSE]
    /\ qafter' = [qafter EXCEPT ![th] = FALSE]
    /\ UNCHANGED <<shared, agens, frame, cbits, plocal, hist>>

InitCallers ==
    /\ InitMonitor
    /\ gens = [th \in Threads |-> IF th = 1 THEN InvalidGens ELSE SigchldOnly]

NextCallers ==
    \/ \E p \in Posters : PostStep(p)
    \/ CurrentGenerations(1)
    \/ GenerationForTopic(1)
    \/ KeepList(1)
    \/ KeepTopic(1)
    \/ \E th \in Callers :
          \/ Check(th, TRUE)
          \/ op[th] = "check" /\ Return(th)
          \/ UpdatedGensLock(th)
          \/ FlushLoad(th)
          \/ FlushCasOk(th)
          \/ FlushCasFail(th)
          \/ CheckLoop(th)
          \/ TryLock(th)
          \/ TryAssert(th)
          \/ TryCas(th)
          \/ SemaWait(th)
          \/ ReaderRelock(th)
          \/ CvSpurious(th)
          \/ CvWake(th)

SpecCallers == InitCallers /\ [][NextCallers]_vars

(***************************************************************************)
(* The process from its start: s_principal is null until initialize()      *)
(* leaks the monitor; callers reach the monitor through the reference that *)
(* initialize() or topic_monitor_principal() returned.                     *)
(***************************************************************************)
\* Mutant of InitializeAllocates: the null test is dropped.
InitializeAlwaysAllocates(ptr) == TRUE

\* if s_principal.is_null()
InitializeAllocates(ptr) == ptr = NullPtr

\* Box::into_raw(Box::default()): an address not handed out before; the boxes
\* are numbered in the order of their allocation.
NewBox(ptr) == ptr + 1

\* TopicMonitor::initialize()
Initialize ==
    /\ Running
    /\ ninit < MaxInits
    /\ ninit' = ninit + 1
    /\ IF InitializeAllocates(s_principal)
         THEN /\ s_principal' = NewBox(s_principal)
              /\ status' = 0
              /\ current' = NewGens
              /\ has_reader' = FALSE
              /\ lock' = NoThread
              /\ sema' = 0
         ELSE UNCHANGED <<s_principal, status, current, has_reader, lock,
                          sema>>
    /\ monitor_ref' = s_principal'
    /\ UNCHANGED <<fired, tlocal, plocal, hist, woken>>

\* topic_monitor_principal()
Principal ==
    /\ Running
    /\ IF s_principal = NullPtr
         THEN /\ fired' = fired \cup {"principal: not initialized"}
              /\ UNCHANGED monitor_ref
         ELSE /\ monitor_ref' = s_principal
              /\ UNCHANGED fired
    /\ UNCHANGED <<status, current, has_reader, lock, sema, tlocal, plocal,
                   hist, s_principal, ninit, woken>>

InitBoot ==
    /\ InitFields
    /\ gens = [th \in Threads |-> SigchldOnly]
    /\ s_principal = NullPtr
    /\ monitor_ref = NullPtr
    /\ ninit = 0

\* A caller holding a reference posts, or thread 1 queries and checks.
NextBoot ==
    \/ Initialize
    \/ Principal
    \/ monitor_ref # NullPtr /\ \E p \in Posters : PostStep(p)
    \/ monitor_ref # NullPtr /\ CurrentGenerations(1)
    \/ monitor_ref # NullPtr /\ \E w \in BOOLEAN : Check(1, w)
    \/ Return(1)
    \/ UpdatedGensLock(1)
    \/ FlushLoad(1)
    \/ FlushCasOk(1)
    \/ FlushCasFail(1)
    \/ CheckLoop(1)
    \/ TryLock(1)
    \/ TryAssert(1)
    \/ TryCas(1)
    \/ SemaWait(1)
    \/ ReaderRelock(1)

SpecBoot == InitBoot /\ [][NextBoot]_vars

(***************************************************************************)
(* Three parties: every thread but the last calls check(gens, wait=true)   *)
(* for sigchld, so that one is elected reader and another waits on the     *)
(* condition variable, while the last thread calls current_generations()   *)
(* and so flushes the status word behind their backs.                      *)
(***************************************************************************)
Flusher == NumThreads
Waiters == Threads \ {Flusher}

InitRelay ==
    /\ InitMonitor
    /\ gens = [th \in Threads |->
                  IF th = Flusher THEN InvalidGens ELSE SigchldOnly]

NextRelay ==
    \/ \E p \in Posters : PostStep(p)
    \/ CurrentGenerations(Flusher)
    \/ \E th \in Waiters :
          \/ Check(th, TRUE)
          \/ CheckLoop(th)
          \/ TryLock(th)
          \/ TryAssert(th)
          \/ TryCas(th)
          \/ SemaWait(th)
          \/ ReaderRelock(th)
          \/ CvSpurious(th)
          \/ CvWake(th)
    \/ \E th \in Threads :
          \/ Return(th)
          \/ UpdatedGensLock(th)
          \/ FlushLoad(th)
          \/ FlushCasOk(th)
          \/ FlushCasFail(th)

SpecRelay == InitRelay /\ [][NextRelay]_vars

(***************************************************************************)
(* The waiting protocol under fair scheduling: threads call                *)
(* check(gens, wait=true) and current_generations(), posters post.  Every  *)
(* step of a call in progress is eventually taken: weakly fair where the   *)
(* step stays enabled until taken, strongly fair where it competes (the    *)
(* mutex; a compare_exchange_weak, which may fail spuriously but not       *)
(* forever).  Nothing obliges a caller to begin a call, to take its result *)
(* or a condition variable to wake spuriously.                             *)
(***************************************************************************)
InitLive ==
    /\ InitMonitor
    /\ gens = [th \in Threads |-> IF th = 1 THEN SigchldOnly ELSE NewGens]

NextLive ==
    \/ \E p \in Posters : PostStep(p)
    \/ \E th \in Callers :
          \/ Check(th, TRUE)
          \/ CurrentGenerations(th)
          \/ Return(th)
          \/ UpdatedGensLock(th)
          \/ FlushLoad(th)
          \/ FlushCasOk(th)
          \/ FlushCasFail(th)
          \/ CheckLoop(th)
          \/ TryLock(th)
          \/ TryAssert(th)
          \/ TryCas(th)
          \/ SemaWait(th)
          \/ ReaderRelock(th)
          \/ CvSpurious(th)
          \/ CvWake(th)

PosterRuns(p) ==
    PostLoad(p) \/ PostCasOk(p) \/ PostCasFail(p) \/ PostSignal(p)

ThreadRuns(th) ==
    \/ FlushLoad(th)
    \/ FlushCasOk(th)
    \/ FlushCasFail(th)
    \/ CheckLoop(th)
    \/ TryAssert(th)
    \/ TryCas(th)
    \/ SemaWait(th)

\* The steps of a thread that compete: taking the mutex, and the flush's
\* compare_exchange_weak succeeding.
ThreadWins(th) ==
    \/ UpdatedGensLock(th)
    \/ TryLock(th)
    \/ ReaderRelock(th)
    \/ CvWake(th)
    \/ FlushCasOk(th)

FairScheduling ==
    /\ \A p \in Posters :
          WF_vars(PosterRuns(p)) /\ SF_vars(PostCasOk(p))
    /\ \A th \in Callers :
          WF_vars(ThreadRuns(th)) /\ SF_vars(ThreadWins(th))

SpecLive == InitLive /\ [][NextLive]_vars /\ FairScheduling

(***************************************************************************)
(* post() as a signal handler: a started post() keeps taking its steps     *)
(* (its compare_exchange_weak failing spuriously at most finitely often),  *)
(* while nothing obliges any thread to take a step: the thread it          *)
(* interrupted stays where it was, whatever it holds.                      *)
(***************************************************************************)
HandlerRuns ==
    \A p \in Posters : WF_vars(PosterRuns(p)) /\ SF_vars(PostCasOk(p))

SpecSignal == InitLive /\ [][NextLive]_vars /\ HandlerRuns

(***************************************************************************)
(* Properties.                                                             *)
(***************************************************************************)
\* The topic bits of all topics, and the values the status word may take.
TopicBits == topic_to_bit(sighupint) + topic_to_bit(sigchld)
                 + topic_to_bit(internal_exit)

\* C1: in every reachable state the status word is 0, exactly 128, or a
\* non-empty set of topic bits without bit 128; the assertions of post() and
\* of updated_gens_in_data never fire.
C1_StatusWordInvariant ==
    /\ \/ status = 0
       \/ status = STATUS_NEEDS_WAKEUP
       \/ status \in 1..TopicBits
    /\ "post: wakeup bit with other bits" \notin fired
    /\ "flush: thread waiting bit set" \notin fired

\* Witness of C1: a post has replaced the wakeup value by its topic bit and
\* is about to signal the reader, which is still inside the semaphore wait.
C1_Witness ==
    \E p \in Posters, th \in Threads :
        /\ ppc[p] = "signal"
        /\ oldstatus[p] = STATUS_NEEDS_WAKEUP
        /\ status \in 1..TopicBits
        /\ pc[th] = "sema_wait"

\* C2: at most one thread is inside sema_.wait() in any reachable state.
C2_SingleReader ==
    Cardinality({th \in Threads : pc[th] = "sema_wait"}) <= 1

\* Witness of C2: two threads are blocked in check(wait=true) at once, one in
\* the semaphore wait and the other on the condition variable, with a post
\* concurrently in flight.
C2_Witness ==
    \E a, b \in Threads, p \in Posters :
        /\ pc[a] = "sema_wait"
        /\ pc[b] = "cv_wait"
        /\ ppc[p] = "signal"

\* g <= h in every topic.
Leq(g, h) == \A t \in all_topics : g[t] <= h[t]

\* C4: the ledger generation of every topic never decreases; every snapshot a
\* thread holds, and every valid generation of a caller's list, is at most
\* the ledger now (a later observation is >= an earlier one); a snapshot
\* just returned is >= every snapshot held; any two snapshots held are
\* pointwise ordered.
C4_Monotonic ==
    /\ [][Leq(current, current')]_vars
    /\ [](\A th \in Threads :
            /\ Leq(cur[th], current)
            /\ \A t \in all_topics :
                   is_valid(gens[th], t) => gens[th][t] <= current[t])
    /\ [][\A th \in Threads :
            (cur'[th] # cur[th] /\ pc'[th] # "idle") =>
                \A x \in Threads : Leq(cur[x], cur'[th])]_vars
    /\ [](\A a, b \in Threads : Leq(cur[a], cur[b]) \/ Leq(cur[b], cur[a]))

\* Witness of C4: two threads hold snapshots returned at different times, the
\* later one larger in a topic that was flushed twice.
C4_Witness ==
    \E a, b \in Threads, t \in all_topics :
        /\ pc[a] = "done" /\ op[a] = "current_generations"
        /\ pc[b] = "done" /\ op[b] = "current_generations"
        /\ cur[a][t] = 1
        /\ cur[b][t] = 2
        /\ current[t] = 2

\* C5: a query that begins after a post(t) call has returned yields, for t, a
\* generation strictly larger than every generation of t a query had
\* returned before that post(t) call began.  For check() the generation is
\* the one in gens when check returns, for every topic valid in gens.
C5_PostIsVisible ==
    \A th \in Threads :
        (pc[th] = "done" /\ qafter[th]) =>
            /\ op[th] = "current_generations" => cur[th][mark.t] > mark.pre
            /\ (op[th] = "generation_for_topic" /\ qtopic[th] = mark.t) =>
                   cur[th][qtopic[th]] > mark.pre
            /\ (op[th] = "check" /\ is_valid(gens[th], mark.t)) =>
                   gens[th][mark.t] > mark.pre

\* Witness of C5: the singled-out post(t) began when generation 1 of t had
\* already been returned, it returned, and a check that began afterwards has
\* returned with generation 2 of t.
C5_Witness ==
    \E th \in Threads :
        /\ pc[th] = "done" /\ qafter[th] /\ op[th] = "check" /\ ret[th]
        /\ mark.pre = 1
        /\ gens[th][mark.t] = 2

\* C6: N >= 1 posts to sigchld with no flush among them raise the generation
\* of sigchld by at least 1 and at most N (here by exactly 1); of the checks
\* on one list that follow with no further post, the first (its list still
\* at the old generation when it begins) reports a change and every later
\* one reports none.
C6_CoalescingSound ==
    /\ current[sigchld] <= nposts
    /\ (PostsOver /\ current[sigchld] = 0) =>
           BitAnd(status, topic_to_bit(sigchld)) # 0
    /\ (op[1] = "check" /\ pc[1] # "done") =>
           (clean[1] <=> gens[1][sigchld] = 1)
    /\ pc[1] = "done" =>
           /\ current[sigchld] = 1
           /\ gens[1][sigchld] = 1
           /\ ret[1] <=> ~clean[1]

C6_Witness ==
    /\ pc[1] = "done"
    /\ ~ret[1]
    /\ clean[1]
    /\ nposts = MaxPosts
    /\ gens[1][sigchld] = 1

\* C7: in the scenario, when thread 1 returns it returns changed = true with
\* gens.sigchld = 1 and the other entries still invalid; and once both posts
\* are over and no step is left to take, thread 1 has returned.
C7_TwoPostsOneWake ==
    /\ pc[1] = "done" =>
           /\ ret[1]
           /\ gens[1] = [InvalidGens EXCEPT ![sigchld] = 1]
    /\ (nposts = 2 /\ ppc[1] = "idle" /\ ~ENABLED NextAwait) =>
           pc[1] = "done"

C7_Witness ==
    /\ pc[1] = "done"
    /\ ret[1]
    /\ nposts = 2
    /\ ppc[1] = "idle"
    /\ current[sigchld] = 1
    /\ gens[1][sigchld] = 1

\* C8: a check(gens, wait=false) that begins with gens up to date (every valid
\* topic at the ledger's generation, its bit not pending) and sees no post to
\* a valid topic while it runs returns false, never modifies gens, and leaves
\* gens up to date, so that a repeated call is in the same case.
C8_FastPathIdempotent ==
    /\ [](\A th \in Threads :
            (pc[th] = "done" /\ op[th] = "check" /\ ~wait[th] /\ clean[th]) =>
                ~ret[th] /\ UpToDate(gens[th]))
    /\ [][\A th \in Threads :
            (op'[th] = "check" /\ ~wait'[th] /\ clean'[th]) =>
                gens'[th] = gens[th]]_vars

C8_Witness ==
    \E th \in Threads :
        /\ pc[th] = "done"
        /\ op[th] = "check"
        /\ ~wait[th]
        /\ clean[th]
        /\ ~ret[th]
        /\ gens[th] = [InvalidGens EXCEPT ![sigchld] = 1]
        /\ current[sighupint] = 1

\* C9: check() on a list whose every entry is the invalid sentinel returns
\* false in one step, for either value of wait, and leaves the ledger, the
\* status word, the reader flag, the notifier, gens and the lock as they were.
C9_AllInvalidShortCircuit ==
    /\ [](\A th \in Threads :
            (pc[th] # "idle" /\ op[th] = "check" /\ gens[th] = InvalidGens) =>
                pc[th] = "done" /\ ~ret[th] /\ lock # th)
    /\ [][\A th \in Threads :
            (pc[th] = "idle" /\ op'[th] = "check" /\ gens[th] = InvalidGens) =>
                /\ pc'[th] = "done"
                /\ ~ret'[th]
                /\ UNCHANGED <<status, current, has_reader, lock, sema, gens>>
       ]_vars

C9_Witness ==
    \E th \in Threads :
        /\ pc[th] = "done"
        /\ op[th] = "check"
        /\ wait[th]
        /\ gens[th] = InvalidGens
        /\ status = STATUS_NEEDS_WAKEUP
        /\ has_reader

\* The calls of check(gens, wait=false) in progress.
NoWaitCheck(th) == op[th] = "check" /\ ~wait[th]

\* C10: a check(gens, wait=false) is only ever taking the lock, flushing,
\* comparing or returning: never at the condition variable, never at the
\* notifier, never electing itself; none of its steps sets the wakeup bit or
\* the reader flag or touches the notifier; and its one comparison after the
\* flush is followed by its return.
C10_NoWaitNeverBlocks ==
    /\ [](\A th \in Threads :
            NoWaitCheck(th) =>
                pc[th] \in {"ug_lock", "fl_load", "fl_cas", "ck_loop", "done"})
    /\ [][\A th \in Threads :
            (NoWaitCheck(th) /\ pc'[th] # pc[th]) =>
                /\ has_reader' = has_reader
                /\ sema' = sema
                /\ BitAnd(status', STATUS_NEEDS_WAKEUP) =
                       BitAnd(status, STATUS_NEEDS_WAKEUP)
                /\ pc[th] = "ck_loop" => pc'[th] = "done"]_vars

C10_Witness ==
    \E th, o \in Threads :
        /\ pc[th] = "done"
        /\ NoWaitCheck(th)
        /\ ~ret[th]
        /\ any_valid(gens[th])
        /\ pc[o] = "sema_wait"
        /\ has_reader
        /\ status = STATUS_NEEDS_WAKEUP

\* A call of check(gens, wait=true) by th is in progress.
Waiting(th) == op[th] = "check" /\ wait[th] /\ pc[th] # "done"

\* A post(t) has taken effect that the list of th does not reflect: its bit
\* is pending in the status word, or the ledger is past the list.
Posted(th, t) ==
    \/ BitAnd(status, topic_to_bit(t)) # 0
    \/ gens[th][t] < current[t]

\* C3: under fair scheduling, a thread in check(gens, wait=true) with t valid
\* in gens, once a post(t) has taken effect that gens does not reflect,
\* eventually returns true; wherever the thread is (at the notifier as the
\* reader, at the condition variable, or in between) and whoever flushes.
C3_NoMissedWakeup ==
    \A th \in Threads :
        (Waiting(th) /\ \E t \in all_topics :
                           is_valid(gens[th], t) /\ Posted(th, t))
            ~> (pc[th] = "done" /\ op[th] = "check" /\ ret[th])

C3_Witness ==
    \E a, b \in Threads :
        /\ pc[a] = "sema_wait"
        /\ pc[b] = "cv_wait"
        /\ Waiting(a) /\ Waiting(b)
        /\ is_valid(gens[a], sigchld) /\ is_valid(gens[b], sigchld)
        /\ BitAnd(status, topic_to_bit(sigchld)) # 0

\* C11: check() returns true exactly when its last comparison raised a valid
\* entry of gens to the strictly larger value of its snapshot; gens changes in
\* no other step; on a false return gens is as it was; an invalid entry stays
\* invalid; and a check(wait=true) on a list with a valid entry only ever
\* returns true, so a post to an invalid topic alone never makes it return.
C11_TrueIffRaised ==
    /\ [](\A th \in Threads :
            (pc[th] = "done" /\ op[th] = "check" /\ wait[th]
                /\ any_valid(gens[th])) => ret[th])
    /\ [][\A th \in Threads :
            /\ \A t \in all_topics :
                 is_valid(gens'[th], t) <=> is_valid(gens[th], t)
            /\ gens'[th] # gens[th] =>
                 pc[th] = "ck_loop" /\ pc'[th] = "done" /\ ret'[th]
            /\ (pc[th] = "ck_loop" /\ pc'[th] = "done") =>
                 (ret'[th] <=>
                     \E t \in all_topics :
                         /\ is_valid(gens[th], t)
                         /\ gens[th][t] < gens'[th][t]
                         /\ gens'[th][t] = cur[th][t])]_vars

C11_Witness ==
    \E th \in Threads :
        /\ pc[th] = "done"
        /\ op[th] = "check"
        /\ wait[th]
        /\ ret[th]
        /\ gens[th] = [InvalidGens EXCEPT ![sigchld] = 1]
        /\ current[sighupint] = 1

\* C12: with every valid entry of gens obtained from the monitor (0, a kept
\* result of current_generations or generation_for_topic, an earlier check),
\* every comparison of check's loop, the first and those after an await, finds
\* gens[t] <= snapshot[t] for each valid topic t: the assertion never fires.
C12_IncomingNeverExceeds ==
    /\ "check: incoming gen count exceeded" \notin fired
    /\ \A th \in Threads :
          pc[th] = "ck_loop" =>
              \A t \in all_topics :
                  is_valid(gens[th], t) => gens[th][t] <= cur[th][t]

C12_Witness ==
    /\ pc[1] = "ck_loop"
    /\ wait[1]
    /\ gens[1][sighupint] = 1
    /\ gens[1][sigchld] = INVALID_GENERATION
    /\ cur[1][sighupint] = 2

\* C13: a started post() is never blocked (one of its steps is enabled in
\* every state, whoever holds the lock, waits, or is half way through another
\* post) and, the interrupted threads standing still, it runs to its return;
\* its steps touch neither the lock, the ledger, the reader flag nor any
\* thread's position, and only add to the notifier; the holder of the lock is
\* never at a wait, so no interleaving deadlocks; and the status word stays
\* 0, 128 or a set of topic bits.
C13_PostNeverBlocks ==
    /\ [](\A p \in Posters : ppc[p] # "idle" => ENABLED PosterRuns(p))
    /\ [](\A th \in Threads :
            lock = th =>
                pc[th] \in {"fl_load", "fl_cas", "try_assert", "try_cas"})
    /\ [](status = STATUS_NEEDS_WAKEUP \/ status \in 0..TopicBits)
    /\ [][\A p \in Posters :
            ppc'[p] # ppc[p] =>
                /\ UNCHANGED <<lock, current, has_reader, pc>>
                /\ sema' >= sema]_vars
    /\ \A p \in Posters : (ppc[p] # "idle") ~> (ppc[p] = "idle")

C13_Witness ==
    \E p, q \in Posters : \E th \in Threads :
        /\ ppc[p] = "signal"
        /\ ppc[q] = "cas"
        /\ lock = th
        /\ pc[th] = "fl_cas"

\* C14: initialize() allocates the monitor only while s_principal is null;
\* once set, s_principal never changes; a later initialize() leaves the
\* status word, the ledger, the reader flag, the lock and the notifier as
\* they are and returns s_principal; topic_monitor_principal() returns
\* s_principal once it is set and fails its assertion while it is null, and
\* never otherwise; every reference handed out is the one monitor.
C14_InitializeIdempotent ==
    /\ [](monitor_ref # NullPtr =>
            monitor_ref = s_principal /\ s_principal = FirstBox)
    /\ [](s_principal = NullPtr <=> ninit = 0)
    /\ []("principal: not initialized" \in fired => s_principal = NullPtr)
    /\ [][s_principal # NullPtr => s_principal' = s_principal]_vars
    /\ [][Initialize =>
            /\ s_principal' # NullPtr
            /\ monitor_ref' = s_principal'
            /\ s_principal # NullPtr =>
                  UNCHANGED <<s_principal, status, current, has_reader, lock,
                              sema>>]_vars
    /\ [][Principal =>
            IF s_principal = NullPtr
              THEN "principal: not initialized" \in fired'
              ELSE monitor_ref' = s_principal /\ UNCHANGED fired]_vars

C14_Witness ==
    /\ ninit = MaxInits
    /\ MaxInits >= 2
    /\ monitor_ref = FirstBox
    /\ s_principal = FirstBox
    /\ has_reader
    /\ current[sigchld] = 1
    /\ status = STATUS_NEEDS_WAKEUP

\* A step of poster p in which its compare-and-swap succeeds.
PostCasSucceeds(p) == ppc[p] = "cas" /\ ppc'[p] \in {"signal", "idle"}

\* C15: the successful compare-and-swap of post(topic) leaves the status word
\* at the replaced value with bit 128 cleared and the topic's bit set; the
\* post goes on to signal the notifier exactly when the replaced value was
\* 128, signals it once, and the notifier is signalled by no other step.
C15_SignalIffWakeup ==
    /\ [][\A p \in Posters :
            PostCasSucceeds(p) =>
                /\ status' =
                      (status % STATUS_NEEDS_WAKEUP)
                      + (IF BitAnd(status, topic_to_bit(ptopic[p])) = 0
                           THEN topic_to_bit(ptopic[p]) ELSE 0)
                /\ ppc'[p] = "signal" <=> status = STATUS_NEEDS_WAKEUP
                /\ sema' = sema]_vars
    /\ [][sema' > sema =>
            /\ sema' = sema + 1
            /\ \E p \in Posters :
                  /\ ppc[p] = "signal" /\ ppc'[p] = "idle"
                  /\ \A q \in Posters \ {p} : ppc'[q] = ppc[q]]_vars
    /\ [][\A p \in Posters :
            (ppc[p] = "signal" /\ ppc'[p] # ppc[p]) =>
                ppc'[p] = "idle" /\ sema' = sema + 1]_vars

C15_Witness ==
    /\ \A p \in Posters : ppc[p] = "idle"
    /\ nposts = 2
    /\ sema = 1
    /\ status = topic_to_bit(sighupint) + topic_to_bit(sigchld)

\* A step of thread th in which the flush's compare-and-swap succeeds.
FlushCaptures(th) == pc[th] = "fl_cas" /\ pc'[th] \notin {"fl_cas", "fl_load"}

\* C16: the flush that captures a non-empty set of topic bits sets the status
\* word to 0, adds exactly 1 to the generation of each captured topic, leaves
\* the other generations alone and wakes every thread at the condition
\* variable; the ledger changes in no other step; and a topic bit leaves the
\* status word only by being captured, so a post that lands after a capture
\* stays pending until the next one.
C16_FlushCaptures ==
    /\ [][\A th \in Threads :
            FlushCaptures(th) =>
                /\ status # 0
                /\ status' = 0
                /\ \A t \in all_topics :
                      current'[t] =
                          IF BitAnd(status, topic_to_bit(t)) # 0
                            THEN current[t] + 1 ELSE current[t]
                /\ \A x \in Threads \ {th} :
                      pc[x] = "cv_wait" => pc'[x] = "cv_woken"]_vars
    /\ [][current' # current => \E th \in Threads : FlushCaptures(th)]_vars
    /\ [][\A t \in all_topics :
            (BitAnd(status, topic_to_bit(t)) # 0
                /\ BitAnd(status', topic_to_bit(t)) = 0) =>
                current'[t] = current[t] + 1]_vars

C16_Witness ==
    /\ status = topic_to_bit(sighupint)
    /\ current[sigchld] = 1
    /\ current[sighupint] = 0
    /\ \E th \in Threads : pc[th] = "cv_woken"

\* C17: when the flush loads a status word of 0 or exactly 128 it returns
\* without a compare-and-swap: the status word and the ledger are unchanged
\* and a query gets the ledger as it is; the value 128 is only ever replaced
\* by a post's compare-and-swap, and that post goes on to signal the notifier.
C17_NothingPendingIsNoOp ==
    /\ [][\A th \in Threads :
            (pc[th] = "fl_load" /\ pc'[th] # "fl_load") =>
                /\ status' = status
                /\ current' = current
                /\ (status = 0 \/ status = STATUS_NEEDS_WAKEUP)
                      <=> pc'[th] # "fl_cas"
                /\ pc'[th] = "done" => cur'[th] = current]_vars
    /\ [][(status = STATUS_NEEDS_WAKEUP /\ status' # status) =>
            \E p \in Posters :
                PostCasSucceeds(p) /\ ppc'[p] = "signal"]_vars

C17_Witness ==
    \E th \in Threads :
        /\ pc[th] = "done"
        /\ op[th] = "current_generations"
        /\ status = STATUS_NEEDS_WAKEUP
        /\ has_reader
        /\ cur[th] = current
        /\ current[sigchld] = 1

\* A step in which thread th becomes the reader.
BecomesReader(th) == pc[th] # "sema_wait" /\ pc'[th] = "sema_wait"

\* C18: a thread at the reader compare-and-swap holds the lock, sees the
\* reader flag false and has generations equal to the ledger; it becomes the
\* reader exactly when that compare-and-swap replaces 0 by 128 (nothing else
\* stores 128 or raises the reader flag); when it fails, status word and flag
\* are untouched and the thread, still holding the lock, flushes again; a
\* thread waiting at the notifier has the generations it was called with, and
\* the assertion about them never fires.
C18_ReaderByCasOnly ==
    /\ [](\A th \in Threads :
            pc[th] \in {"try_assert", "try_cas"} =>
                lock = th /\ ~has_reader /\ agens[th] = current)
    /\ [](\A th \in Threads : pc[th] = "sema_wait" => agens[th] = cur[th])
    /\ []("await: gens changed as reader" \notin fired)
    /\ [][\A th \in Threads :
            (pc[th] = "try_cas" /\ pc'[th] # "try_cas") =>
                IF status = 0
                  THEN /\ status' = STATUS_NEEDS_WAKEUP
                       /\ has_reader'
                       /\ pc'[th] = "sema_wait"
                  ELSE /\ status' = status
                       /\ ~has_reader'
                       /\ lock' = th
                       /\ pc'[th] = "fl_load"]_vars
    /\ [][((status' = STATUS_NEEDS_WAKEUP /\ status # STATUS_NEEDS_WAKEUP)
              \/ (has_reader' /\ ~has_reader)
              \/ \E th \in Threads : BecomesReader(th)) =>
            \E th \in Threads :
                /\ pc[th] = "try_cas"
                /\ BecomesReader(th)
                /\ status = 0
                /\ status' = STATUS_NEEDS_WAKEUP
                /\ has_reader']_vars

C18_Witness ==
    \E th \in Threads :
        /\ pc[th] = "sema_wait"
        /\ has_reader
        /\ status = STATUS_NEEDS_WAKEUP
        /\ lock = NoThread
        /\ agens[th] = current
        /\ current[sighupint] = 1
        /\ gens[th] = SigchldOnly

\* The threads between their successful reader compare-and-swap and their
\* clearing of the reader flag.
Readers == {th \in Threads : pc[th] \in {"sema_wait", "rd_lock"}}

Signalling == {p \in Posters : ppc[p] = "signal"}

AwaitReturns(th) ==
    pc[th] \in {"fl_load", "fl_cas", "rd_lock"} /\ frame[th] = "try_update"
        /\ pc'[th] = "ck_loop"

\* C21: await_gens returns the ledger as it then is, different from its input
\* in some topic and at least its input in every topic.  The reader back from
\* the notifier lowers the reader flag and wakes the condition variable's
\* waiters in the same step; if the ledger is still its input (the waking post
\* not yet flushed) it goes round the loop once more, and from then on either
\* a topic bit is pending or the ledger is past its generations, so that in
\* this await call it never again waits on the condition variable, tries to
\* become the reader or waits on the notifier.
C21_AwaitReturnsChanged ==
    /\ [][\A th \in Threads :
            AwaitReturns(th) =>
                /\ cur'[th] # cur[th]
                /\ Leq(cur[th], cur'[th])
                /\ cur'[th] = current']_vars
    /\ [][\A th \in Threads :
            (pc[th] = "rd_lock" /\ pc'[th] # "rd_lock") =>
                /\ ~has_reader'
                /\ pc'[th] \in {"ck_loop", "try_lock"}
                /\ \A x \in Threads \ {th} :
                      pc[x] = "cv_wait" => pc'[x] = "cv_woken"]_vars
    /\ [](\A th \in Threads :
            woken[th] =>
                /\ pc[th] \in {"try_lock", "fl_load", "fl_cas"}
                /\ \/ status \notin {0, STATUS_NEEDS_WAKEUP}
                   \/ current # agens[th])

C21_Witness ==
    \E th \in Threads :
        /\ woken[th]
        /\ pc[th] = "fl_load"
        /\ status = 0
        /\ current # agens[th]

\* C22: a thread waiting on the condition variable and not yet woken always
\* has a reader to wake it (the reader flag is true); and every step that
\* lowers the reader flag or changes the ledger leaves no thread waiting
\* unwoken on the condition variable.
C22_NoStrandedWaiter ==
    /\ [](\A th \in Threads : pc[th] = "cv_wait" => has_reader)
    /\ [][((has_reader /\ ~has_reader') \/ current' # current) =>
            \A x \in Threads :
                /\ pc'[x] # "cv_wait"
                /\ pc[x] = "cv_wait" => pc'[x] = "cv_woken"]_vars

C22_Witness ==
    \E th, o \in Waiters :
        /\ pc[o] = "cv_wait"
        /\ pc[th] = "sema_wait"
        /\ has_reader
        /\ pc[Flusher] = "fl_cas"
        /\ status = cbits[Flusher]

\* C23: whenever a thread is blocked in the notifier wait, the notifier holds
\* no signal and no post is between its successful compare-and-swap and its
\* signal, the status word is exactly 128: the next post will signal.
C23_ReaderNeverForgotten ==
    \A th \in Threads :
        (pc[th] = "sema_wait" /\ sema = 0 /\ Signalling = {}) =>
            status = STATUS_NEEDS_WAKEUP

C23_Witness ==
    \E th \in Threads : \E p \in Posters :
        /\ pc[th] = "sema_wait"
        /\ sema = 0
        /\ Signalling = {}
        /\ status = STATUS_NEEDS_WAKEUP
        /\ ppc[p] = "cas"
        /\ oldstatus[p] = 0
        /\ current[sigchld] = 1

====
